---- MODULE Spec2Model ----
(***************************************************************************)
(* Learning Reminder API (backend/main.py, backend/analytics.py,           *)
(* backend/models.py): the three tables, the HTTP handlers as actions and  *)
(* the two pure functions (interval generator, interval optimizer).        *)
(*                                                                         *)
(* Units.  A datetime is [day, minute]: the day counted from 2024-01-01    *)
(* and the minute of that day; datetimes here have minute resolution.  An  *)
(* ISO-8601 string is modelled by its broken-down fields                   *)
(* [day, hour, minute]; strings with seconds, fractions or UTC offsets are *)
(* outside this alphabet.  A timedelta is [days, minutes], normalised as   *)
(* Python does.  A completion rate is held in tenths of a percent (70.0 is *)
(* 700), which is exact because the analyzer rounds to one decimal.  The   *)
(* float interval_hours of the preview is held as [tenths, ulps]: the      *)
(* double nearest to tenths/10, moved by ulps units in the last place.     *)
(*                                                                         *)
(* Ranges.  Python floats are doubles.  The preview's dates are the exact  *)
(* minute for repetition_number up to 14557 (checked against Python);      *)
(* FloatUlps tabulates the float error of interval_hours for               *)
(* repetition_number 0..20.                                                *)
(***************************************************************************)
EXTENDS Integers, Sequences, FiniteSets, TLC

VARIABLES
    users,      \* table users:            id -> [email]
    items,      \* table learning_items:   id -> [user_id, learning_date]
    schedules,  \* table review_schedules: id -> [learning_item_id, review_number,
                \*                                review_date, completed, is_deleted]
    now,        \* datetime.utcnow() of the server clock
    nreq,       \* number of requests served so far
    resp,       \* the response to the last request: [op, arg, status, body]
    optIn,      \* arguments of the last direct optimize_review_intervals call
    optOut      \* its result

vars == <<users, items, schedules, now, nreq, resp, optIn, optOut>>
store == <<users, items, schedules>>

-----------------------------------------------------------------------------
(* Bounds of the exploration *)

MaxRequests == 5      \* requests per run
MaxItems == 2         \* learning items stored at the same time
MaxUserId == 2        \* user_id inputs are 1..MaxUserId
MaxNow == 1           \* the clock runs over 0..MaxNow
MaxRepetition == 2    \* repetition_number inputs are 0..MaxRepetition
MaxBaseLen == 2       \* length of the base tables given to the optimizer directly

(* Program constants *)

MinutesPerHour == 60
HoursPerDay == 24
MinutesPerDay == HoursPerDay * MinutesPerHour
MinDay == -738885     \* datetime.min is 0001-01-01T00:00
MaxDay == 2913173     \* datetime.max is 9999-12-31T23:59:59.999999

(* Values that are not datetimes, in the shape of one: Python None (SQL NULL) in
   a DateTime column, and the two exceptions datetime arithmetic raises *)
None == [day |-> 0, minute |-> -1]
ValueError == [day |-> 0, minute |-> -2]
OverflowError == [day |-> 0, minute |-> -3]

BASE_INTERVALS == <<1, 24, 72, 168, 336, 720>>

UserIds == 1..MaxUserId
ItemIds == 1..(MaxItems + 1)
ScheduleIds == 1..(MaxItems * Len(BASE_INTERVALS) + 1)
Emails == {"a@example.com"}
TestEmail == "test@example.com"

(* learning_date strings sent by clients: 2024-01-02T09:30, one that does not
   parse, and 9999-12-31T23:30, half an hour before datetime.max *)
GoodDate == [day |-> 1, hour |-> 9, minute |-> 30]
BadDate == [day |-> 0, hour |-> 25, minute |-> 0]
LateDate == [day |-> MaxDay, hour |-> 23, minute |-> 30]
DateStrings == {GoodDate, BadDate, LateDate}

-----------------------------------------------------------------------------
(* Helpers *)

Max(S) == CHOOSE x \in S : \A y \in S : y <= x

(* int(x) of Python on the rational n/d, d > 0: truncation toward zero *)
PyInt(n, d) == IF n >= 0 THEN n \div d ELSE -((-n) \div d)

RECURSIVE GCD(_, _)
GCD(a, b) == IF b = 0 THEN a ELSE GCD(b, a % b)

(* The exact quotient 1000 * completed / all lies halfway between two tenths
   only when the reduced denominator of completed / all is 16, 80, 400 or
   2000.  With 16 the float operations are exact and round() rounds half to
   even.  With 80 and 400 the exact result 100 * completed / all is a double
   and the float product hits it, so round() rounds half to even, except for
   the numerators below, where the product is one ulp off and decides.  With
   2000 the exact result is no double and the side the float falls on decides:
   TieUp2000 lists the numerators rounded up. *)
TieOff80 == {23, 49, 51}
TieOff400 == {109, 203, 207, 249, 251}
TieUp2000 ==
      { 1, 7, 13, 17, 21, 27, 29, 31, 33, 41, 47, 49, 57, 67, 69, 77, 79, 83, 89, 93,
        97, 99, 101, 109, 113, 117, 123, 129, 131, 133, 137, 139, 159, 161, 163, 169,
        171, 183, 191, 193, 199, 201, 203, 213, 221, 223, 229, 231, 233, 243, 251, 253,
        259, 261, 263, 267, 269, 271, 273, 277, 279, 281, 303, 311, 313, 319, 321, 323,
        327, 331, 333, 337, 339, 341, 343, 361, 367, 371, 377, 381, 387, 391, 393, 397,
        399, 401, 403, 421, 431, 437, 441, 447, 451, 453, 457, 461, 463, 467, 481, 491,
        497, 501, 507, 511, 513, 517, 521, 523, 527, 529, 531, 533, 537, 539, 541, 543,
        547, 549, 551, 553, 557, 559, 561, 611, 617, 621, 627, 631, 637, 647, 649, 651,
        657, 659, 661, 667, 669, 671, 673, 677, 679, 681, 683, 687, 707, 717, 727, 737,
        739, 747, 749, 757, 759, 767, 769, 771, 777, 779, 781, 787, 789, 791, 797, 799,
        801, 803, 807, 809, 811, 837, 847, 857, 859, 867, 869, 877, 879, 887, 889, 897,
        899, 901, 907, 909, 911, 917, 919, 921, 923, 927, 929, 931, 933, 937, 957, 967,
        977, 987, 989, 997, 999, 1087, 1097, 1107, 1109, 1117, 1119, 1127, 1129, 1137,
        1139, 1147, 1149, 1151, 1157, 1159, 1161, 1167, 1169, 1171, 1173, 1177, 1179,
        1181, 1183, 1187, 1189, 1191, 1193, 1197, 1199, 1201, 1203, 1207, 1209, 1211,
        1213, 1217, 1219, 1221, 1223, 1227, 1229, 1231, 1233, 1237, 1239, 1241, 1243,
        1247, 1249, 1289, 1299, 1309, 1319, 1329, 1339, 1343, 1349, 1353, 1359, 1363,
        1369, 1373, 1379, 1383, 1389, 1393, 1399, 1403, 1409, 1413, 1417, 1419, 1423,
        1427, 1429, 1433, 1437, 1439, 1443, 1447, 1449, 1453, 1457, 1459, 1463, 1467,
        1469, 1471, 1473, 1477, 1479, 1481, 1483, 1487, 1489, 1491, 1493, 1497, 1499,
        1539, 1549, 1559, 1569, 1579, 1589, 1593, 1599, 1603, 1609, 1613, 1619, 1623,
        1629, 1633, 1639, 1643, 1649, 1653, 1659, 1663, 1667, 1669, 1673, 1677, 1679,
        1683, 1687, 1689, 1693, 1697, 1699, 1703, 1707, 1709, 1713, 1717, 1719, 1721,
        1723, 1727, 1729, 1731, 1733, 1737, 1739, 1741, 1743, 1747, 1749, 1789, 1799,
        1809, 1819, 1829, 1839, 1843, 1849, 1853, 1859, 1863, 1869, 1873, 1879, 1883,
        1889, 1893, 1899, 1903, 1909, 1913, 1917, 1919, 1923, 1927, 1929, 1933, 1937,
        1939, 1943, 1947, 1949, 1953, 1957, 1959, 1963, 1967, 1969, 1971, 1973, 1977,
        1979, 1981, 1983, 1987, 1989, 1991, 1993, 1997, 1999 }

TieRoundsUp(p, d, q) ==
    IF d = 2000 THEN p \in TieUp2000
    ELSE (q % 2 = 1) # (p \in (IF d = 80 THEN TieOff80 ELSE IF d = 400 THEN TieOff400 ELSE {}))

(* round(completed / all * 100, 1) of Python, in tenths, for 0 <= completed,
   0 < all: the float quotient, the float product, then round() *)
PyRound(completed, all) ==
    LET q == (1000 * completed) \div all
        r == (1000 * completed) % all
        g == GCD(completed, all)
    IN  IF 2 * r > all THEN q + 1
        ELSE IF 2 * r < all THEN q
        ELSE IF TieRoundsUp(completed \div g, all \div g, q) THEN q + 1 ELSE q

(* Integer primary key of a table: one more than the largest stored rowid, so
   the id of a deleted last row is given out again.  Foreign keys are not
   enforced: an item may name a user_id that has no users row. *)
NextId(table) == IF DOMAIN table = {} THEN 1 ELSE Max(DOMAIN table) + 1

(* datetime.fromisoformat: ValueError for a field out of range *)
fromisoformat(s) ==
    IF /\ s.day \in MinDay..MaxDay
       /\ s.hour \in 0..(HoursPerDay - 1)
       /\ s.minute \in 0..(MinutesPerHour - 1)
    THEN [day |-> s.day, minute |-> s.hour * MinutesPerHour + s.minute]
    ELSE ValueError

(* datetime.isoformat *)
isoformat(t) ==
    [day |-> t.day, hour |-> t.minute \div MinutesPerHour, minute |-> t.minute % MinutesPerHour]

(* datetime.utcnow(): the clock counts minutes from 2024-01-01T00:00 *)
utcnow == [day |-> now \div MinutesPerDay, minute |-> now % MinutesPerDay]

(* timedelta(hours=h) for an integer h, and for h = tenths/10 (a tenth of an
   hour is 6 minutes) *)
timedelta_hours(h) ==
    [days |-> h \div HoursPerDay, minutes |-> (h % HoursPerDay) * MinutesPerHour]

timedelta_tenths(tenths) ==
    [days |-> tenths \div (10 * HoursPerDay),
     minutes |-> ((tenths % (10 * HoursPerDay)) * MinutesPerHour) \div 10]

(* datetime + timedelta: OverflowError outside datetime.min .. datetime.max *)
plus(t, delta) ==
    LET m == t.minute + delta.minutes
        d == t.day + delta.days + m \div MinutesPerDay
    IN  IF d \in MinDay..MaxDay
        THEN [day |-> d, minute |-> m % MinutesPerDay]
        ELSE OverflowError

-----------------------------------------------------------------------------
(* analytics.py *)

(* ReviewSchedule JOIN LearningItem WHERE LearningItem.user_id = user_id *)
JoinedSchedules(user_id) ==
    { s \in DOMAIN schedules :
        /\ schedules[s].learning_item_id \in DOMAIN items
        /\ items[schedules[s].learning_item_id].user_id = user_id }


(* faulty variant: the is_deleted filter of the denominator is forgotten *)
all_schedules_with_deleted(user_id) ==
    Cardinality(JoinedSchedules(user_id))

(* ... AND ReviewSchedule.is_deleted == False, .count() *)
all_schedules(user_id) ==
    Cardinality({ s \in JoinedSchedules(user_id) : schedules[s].is_deleted = FALSE })

(* ... AND ReviewSchedule.completed IS NOT NULL AND is_deleted == False, .count() *)
completed_schedules(user_id) ==
    Cardinality({ s \in JoinedSchedules(user_id) :
                    /\ schedules[s].completed # None
                    /\ schedules[s].is_deleted = FALSE })

total_items(user_id) ==
    Cardinality({ i \in DOMAIN items : items[i].user_id = user_id })

(* round(completed / all * 100, 1), in tenths of a percent; 0 when all = 0 *)
completion_rate(user_id) ==
    IF all_schedules(user_id) > 0
    THEN PyRound(completed_schedules(user_id), all_schedules(user_id))
    ELSE 0

analyze_learning_pattern(user_id) ==
    [total_items |-> total_items(user_id),
     completion_rate |-> completion_rate(user_id)]


(* faulty variant: the thresholds are inclusive *)
adjustment_inclusive(rate) ==
    IF rate <= 500 THEN 8
    ELSE IF rate >= 800 THEN 12
    ELSE 10

(* the adjustment factor, in tenths: 0.8, 1.2 or 1.0 *)
adjustment(rate) ==
    IF rate < 500 THEN 8
    ELSE IF rate > 800 THEN 12
    ELSE 10

(* [int(interval * adjustment) for interval in base_intervals] *)
optimize_review_intervals(rate, base_intervals) ==
    [k \in 1..Len(base_intervals) |-> PyInt(base_intervals[k] * adjustment(rate), 10)]

-----------------------------------------------------------------------------
(* main.py: responses *)

Response(op, arg, status, body) ==
    [op |-> op, arg |-> arg, status |-> status, body |-> body]

Served == nreq < MaxRequests /\ nreq' = nreq + 1


(* The float interval * (1 + 0.1 * repetition_number) against the double
   nearest to the exact product, in units in the last place; one row per
   repetition_number 0..20, one column per base interval *)
FloatUlps ==
    << <<0, 0, 0, 0, 0, 0>>,
       <<0, 1, 0, 0, 0, 1>>,
       <<0, -1, -1, 0, 0, 0>>,
       <<0, 1, 1, 0, 0, 0>>,
       <<0, -1, 0, 0, 0, -1>>,
       <<0, 0, 0, 0, 0, 0>>,
       <<0, 1, 0, 0, 0, 0>>,
       <<1, 1, 0, 0, 0, 1>>,
       <<0, 0, 0, 1, 1, 0>>,
       <<0, -1, -1, 0, 0, 0>>,
       <<0, 0, 0, 0, 0, 0>>,
       <<0, 1, 1, 0, 0, 0>>,
       <<0, 1, 0, 0, 0, 1>>,
       <<0, -1, 0, 0, 0, -1>>,
       <<1, 1, 0, 1, 1, 1>>,
       <<0, 0, 0, 0, 0, 0>>,
       <<0, 1, 1, 0, 0, 0>>,
       <<0, 1, 0, 0, 0, 1>>,
       <<0, -1, 0, 0, 0, -1>>,
       <<1, 1, 0, 1, 1, 1>>,
       <<0, 0, 0, 0, 0, 0>> >>

(* POST /calculate-reviews: the preview, nothing is read or written *)
adjusted_intervals(repetition_number) ==
    [k \in 1..Len(BASE_INTERVALS) |->
        [tenths |-> BASE_INTERVALS[k] * (10 + repetition_number),
         ulps |-> FloatUlps[repetition_number + 1][k]]]

(* timedelta(hours=...) beyond the whole range of datetime: the addition (or
   the timedelta itself) raises OverflowError whatever the date *)
beyond_range(interval, repetition_number) ==
    \/ 10 + repetition_number > ((MaxDay - MinDay + 1) * 10 * HoursPerDay) \div interval
    \/ 10 + repetition_number < 0 - ((MaxDay - MinDay + 1) * 10 * HoursPerDay) \div interval

review_dates_preview(date, repetition_number) ==
    [k \in 1..Len(BASE_INTERVALS) |->
        IF beyond_range(BASE_INTERVALS[k], repetition_number)
        THEN OverflowError
        ELSE plus(date, timedelta_tenths(BASE_INTERVALS[k] * (10 + repetition_number)))]

review_schedule(date, repetition_number) ==
    [k \in 1..Len(BASE_INTERVALS) |->
        [review_number |-> k,
         review_date |-> isoformat(review_dates_preview(date, repetition_number)[k]),
         interval_hours |-> adjusted_intervals(repetition_number)[k],
         completed |-> FALSE,
         is_deleted |-> FALSE]]

(* only ValueError is caught (400); an OverflowError of the date addition
   leaves the handler and is answered 500 *)
calculate_reviews(learning_date, repetition_number) ==
    /\ Served
    /\ resp' =
          IF fromisoformat(learning_date) = ValueError
          THEN Response("calculate_reviews", <<learning_date, repetition_number>>,
                        400, "Invalid date format")
          ELSE IF \E k \in 1..Len(BASE_INTERVALS) :
                     review_dates_preview(fromisoformat(learning_date),
                                          repetition_number)[k] = OverflowError
          THEN Response("calculate_reviews", <<learning_date, repetition_number>>,
                        500, "Internal Server Error")
          ELSE Response("calculate_reviews", <<learning_date, repetition_number>>,
                        200, review_schedule(fromisoformat(learning_date),
                                             repetition_number))
    /\ UNCHANGED <<users, items, schedules, now, optIn, optOut>>


(* review_dates = [learning_date + timedelta(hours=interval) ...] *)
review_dates(learning_date, intervals) ==
    [k \in 1..Len(intervals) |-> plus(learning_date, timedelta_hours(intervals[k]))]

(* faulty variant: enumerate(review_dates) without the start value 1 *)
new_schedules_from_zero(item_id, dates) ==
    [s \in (NextId(schedules))..(NextId(schedules) + Len(dates) - 1) |->
        [learning_item_id |-> item_id,
         review_number |-> s - NextId(schedules),
         review_date |-> dates[s - NextId(schedules) + 1],
         completed |-> None,
         is_deleted |-> FALSE]]

(* POST /learning-items/: one ReviewSchedule per review date, numbered from 1 *)
new_schedules(item_id, dates) ==
    [s \in (NextId(schedules))..(NextId(schedules) + Len(dates) - 1) |->
        [learning_item_id |-> item_id,
         review_number |-> s - NextId(schedules) + 1,
         review_date |-> dates[s - NextId(schedules) + 1],
         completed |-> None,
         is_deleted |-> FALSE]]

(* The request's session ends without db.commit(): the flushed item row is
   rolled back (get_db of database.py) *)
rollback == UNCHANGED <<items, schedules>>

(* faulty variant: the item row is committed before the date is parsed *)
create_learning_item_early_commit(learning_date, user_id) ==
    /\ Served
    /\ Cardinality(DOMAIN items) < MaxItems
    /\ LET date == fromisoformat(learning_date)
           intervals == optimize_review_intervals(
                            analyze_learning_pattern(user_id).completion_rate,
                            BASE_INTERVALS)
           dates == review_dates(date, intervals)
           id == NextId(items)
       IN  IF date = ValueError
           THEN /\ resp' = Response("create_learning_item", <<learning_date, user_id>>,
                                    400, "Invalid data format")
                /\ items' = (id :> [user_id |-> user_id, learning_date |-> None]) @@ items
                /\ UNCHANGED schedules
           ELSE IF \E k \in 1..Len(dates) : dates[k] = OverflowError
           THEN /\ resp' = Response("create_learning_item", <<learning_date, user_id>>,
                                    500, "Internal server error")
                /\ rollback
           ELSE /\ items' = (id :> [user_id |-> user_id, learning_date |-> date]) @@ items
                /\ schedules' = new_schedules(id, dates) @@ schedules
                /\ resp' = Response("create_learning_item", <<learning_date, user_id>>,
                                    200, [item_id |-> id, learning_date |-> isoformat(date)])
    /\ UNCHANGED <<users, now, optIn, optOut>>

(* ValueError of fromisoformat is answered 400 before anything is added; any
   other exception (here the OverflowError of a review date, raised after the
   item was flushed) is answered 500 *)
create_learning_item(learning_date, user_id) ==
    /\ Served
    /\ Cardinality(DOMAIN items) < MaxItems
    /\ LET date == fromisoformat(learning_date)
           analytics == analyze_learning_pattern(user_id)
           intervals == optimize_review_intervals(analytics.completion_rate,
                                                  BASE_INTERVALS)
           dates == review_dates(date, intervals)
           id == NextId(items)
       IN  IF date = ValueError
           THEN /\ resp' = Response("create_learning_item", <<learning_date, user_id>>,
                                    400, "Invalid data format")
                /\ UNCHANGED <<items, schedules>>
           ELSE IF \E k \in 1..Len(dates) : dates[k] = OverflowError
           THEN /\ resp' = Response("create_learning_item", <<learning_date, user_id>>,
                                    500, "Internal server error")
                /\ rollback
           ELSE /\ items' = (id :> [user_id |-> user_id, learning_date |-> date]) @@ items
                /\ schedules' = new_schedules(id, dates) @@ schedules
                /\ resp' = Response("create_learning_item", <<learning_date, user_id>>,
                                    200, [item_id |-> id, learning_date |-> isoformat(date)])
    /\ UNCHANGED <<users, now, optIn, optOut>>

(* GET /learning-items/{user_id} *)
get_learning_items(user_id) ==
    /\ Served
    /\ resp' = Response("get_learning_items", user_id, 200,
                        { [id |-> i,
                           learning_date |-> isoformat(items[i].learning_date),
                           user_id |-> items[i].user_id] :
                          i \in { j \in DOMAIN items : items[j].user_id = user_id } })
    /\ UNCHANGED <<users, items, schedules, now, optIn, optOut>>


(* faulty variant: the update is not restricted to the one row *)
complete_review_all_siblings(schedule_id) ==
    /\ Served
    /\ IF schedule_id \notin DOMAIN schedules
       THEN /\ resp' = Response("complete_review", schedule_id, 404, "not found")
            /\ UNCHANGED schedules
       ELSE /\ schedules' =
                 [s \in DOMAIN schedules |->
                    IF schedules[s].learning_item_id = schedules[schedule_id].learning_item_id
                    THEN [schedules[s] EXCEPT !.completed = utcnow]
                    ELSE schedules[s]]
            /\ resp' = Response("complete_review", schedule_id, 200, isoformat(utcnow))
    /\ UNCHANGED <<users, items, now, optIn, optOut>>

(* POST /review-complete/{schedule_id} *)
complete_review(schedule_id) ==
    /\ Served
    /\ IF schedule_id \notin DOMAIN schedules
       THEN /\ resp' = Response("complete_review", schedule_id, 404, "not found")
            /\ UNCHANGED schedules
       ELSE /\ schedules' = [schedules EXCEPT ![schedule_id].completed = utcnow]
            /\ resp' = Response("complete_review", schedule_id, 200, isoformat(utcnow))
    /\ UNCHANGED <<users, items, now, optIn, optOut>>

(* POST /review-delete/{schedule_id} *)
delete_review(schedule_id) ==
    /\ Served
    /\ IF schedule_id \notin DOMAIN schedules
       THEN /\ resp' = Response("delete_review", schedule_id, 404, "not found")
            /\ UNCHANGED schedules
       ELSE /\ schedules' = [schedules EXCEPT ![schedule_id].is_deleted = TRUE]
            /\ resp' = Response("delete_review", schedule_id, 200, TRUE)
    /\ UNCHANGED <<users, items, now, optIn, optOut>>


(* faulty variant: the is_deleted filter of the listing is forgotten *)
review_schedules_of_unfiltered(learning_item_id) ==
    { s \in DOMAIN schedules : schedules[s].learning_item_id = learning_item_id }

(* GET /review-schedules/{learning_item_id} *)
review_schedules_of(learning_item_id) ==
    { s \in DOMAIN schedules :
        /\ schedules[s].learning_item_id = learning_item_id
        /\ schedules[s].is_deleted = FALSE }

get_review_schedules(learning_item_id) ==
    /\ Served
    /\ resp' = Response("get_review_schedules", learning_item_id, 200,
                        { [id |-> s,
                           review_number |-> schedules[s].review_number,
                           review_date |-> isoformat(schedules[s].review_date),
                           completed |-> schedules[s].completed # None,
                           completed_at |-> IF schedules[s].completed # None
                                            THEN isoformat(schedules[s].completed)
                                            ELSE None,
                           is_deleted |-> schedules[s].is_deleted] :
                          s \in review_schedules_of(learning_item_id) })
    /\ UNCHANGED <<users, items, schedules, now, optIn, optOut>>

(* GET /analytics/{user_id} *)
get_analytics(user_id) ==
    /\ Served
    /\ resp' = Response("get_analytics", user_id, 200, analyze_learning_pattern(user_id))
    /\ UNCHANGED <<users, items, schedules, now, optIn, optOut>>

(* POST /users/ and GET /users/test *)
existing_user(email) == { u \in DOMAIN users : users[u].email = email }

add_user(op, email) ==
    /\ Served
    /\ IF existing_user(email) # {}
       THEN /\ resp' = Response(op, email, 200, Max(existing_user(email)))
            /\ UNCHANGED users
       ELSE /\ users' = (NextId(users) :> [email |-> email]) @@ users
            /\ resp' = Response(op, email, 200, NextId(users))
    /\ UNCHANGED <<items, schedules, now, optIn, optOut>>

create_user(email) == add_user("create_user", email)

create_test_user == add_user("create_test_user", TestEmail)


(* faulty variant: the item is deleted without its schedules *)
delete_learning_item_no_cascade(item_id) ==
    /\ Served
    /\ IF item_id \notin DOMAIN items
       THEN /\ resp' = Response("delete_learning_item", item_id, 404, "not found")
            /\ UNCHANGED <<items, schedules>>
       ELSE /\ items' = [i \in DOMAIN items \ {item_id} |-> items[i]]
            /\ resp' = Response("delete_learning_item", item_id, 200, "deleted")
            /\ UNCHANGED schedules
    /\ UNCHANGED <<users, now, optIn, optOut>>

(* DELETE /learning-items/{item_id} *)
delete_learning_item(item_id) ==
    /\ Served
    /\ IF item_id \notin DOMAIN items
       THEN /\ resp' = Response("delete_learning_item", item_id, 404, "not found")
            /\ UNCHANGED <<items, schedules>>
       ELSE /\ schedules' = [s \in { t \in DOMAIN schedules :
                                       schedules[t].learning_item_id # item_id } |->
                                schedules[s]]
            /\ items' = [i \in DOMAIN items \ {item_id} |-> items[i]]
            /\ resp' = Response("delete_learning_item", item_id, 200, "deleted")
    /\ UNCHANGED <<users, now, optIn, optOut>>

(* the server clock advances between requests *)
Tick ==
    /\ now < MaxNow
    /\ now' = now + 1
    /\ UNCHANGED <<users, items, schedules, nreq, resp, optIn, optOut>>

-----------------------------------------------------------------------------
(* The service: an empty database, then any sequence of requests *)

NoCall == [rate |-> 0, base |-> <<>>]

Init ==
    /\ users = << >>
    /\ items = << >>
    /\ schedules = << >>
    /\ now = 0
    /\ nreq = 0
    /\ resp = Response("root", 0, 200, "Learning Reminder API")
    /\ optIn = NoCall
    /\ optOut = << >>

Next ==
    \/ \E d \in DateStrings, n \in 0..MaxRepetition : calculate_reviews(d, n)
    \/ \E d \in DateStrings, u \in UserIds : create_learning_item(d, u)
    \/ \E u \in UserIds : get_learning_items(u)
    \/ \E s \in ScheduleIds : complete_review(s)
    \/ \E s \in ScheduleIds : delete_review(s)
    \/ \E i \in ItemIds : get_review_schedules(i)
    \/ \E u \in UserIds : get_analytics(u)
    \/ \E e \in Emails : create_user(e)
    \/ create_test_user
    \/ \E i \in ItemIds : delete_learning_item(i)
    \/ Tick

Spec == Init /\ [][Next]_vars

-----------------------------------------------------------------------------
(* optimize_review_intervals called directly on bounded arguments *)

Rates == {0, 400, 499, 500, 501, 650, 799, 800, 801, 900, 1000}
BaseEntries == {0, 1, 10, 20, 24}
BaseTables == UNION { [1..n -> BaseEntries] : n \in 0..MaxBaseLen }

InitOptimize ==
    /\ users = << >>
    /\ items = << >>
    /\ schedules = << >>
    /\ now = 0
    /\ nreq = 0
    /\ resp = Response("root", 0, 200, "Learning Reminder API")
    /\ optIn \in [rate : Rates, base : BaseTables]
    /\ optOut = << >>

Optimize ==
    /\ nreq = 0
    /\ nreq' = 1
    /\ optOut' = optimize_review_intervals(optIn.rate, optIn.base)
    /\ UNCHANGED <<users, items, schedules, now, resp, optIn>>

SpecOptimize == InitOptimize /\ [][Optimize]_vars

-----------------------------------------------------------------------------
(* Properties *)

N == Len(BASE_INTERVALS)

Rows(i) == { s \in DOMAIN schedules : schedules[s].learning_item_id = i }

Kept == DOMAIN schedules \cap DOMAIN schedules'

IsRequest == nreq' # nreq

(* t < u on datetimes *)
before(t, u) == t.day < u.day \/ (t.day = u.day /\ t.minute < u.minute)

Succeeded(op) == IsRequest /\ resp'.op = op /\ resp'.status = 200

(* C1: once a schedule's completed timestamp is non-null, no later step changes
   it (first completion wins). *)
C1_FirstCompletionWins ==
    [][\A s \in Kept :
         schedules[s].completed # None
            => schedules'[s].completed = schedules[s].completed]_vars

(* C2: auxiliary definitions *)
C2_Listing ==
    /\ (resp.op = "get_review_schedules" =>
          /\ { e.id : e \in resp.body } =
                { s \in Rows(resp.arg) : ~schedules[s].is_deleted }
          /\ \A e \in resp.body :
                /\ e.is_deleted = FALSE
                /\ e.review_number = schedules[e.id].review_number
                /\ e.completed = (schedules[e.id].completed # None))
    /\ (resp.op = "delete_review" /\ resp.status = 200 =>
          resp.arg \in DOMAIN schedules /\ schedules[resp.arg].is_deleted)

C2_NoUndelete ==
    \A s \in Kept : schedules[s].is_deleted => schedules'[s].is_deleted

(* C2: the listing returned by get_review_schedules(item_id) is exactly the set
   of stored schedules of that item with is_deleted = FALSE and holds no entry
   with is_deleted = TRUE; a successful delete_review leaves the row in storage
   with the flag set; and no step resets is_deleted of a stored row to FALSE. *)
C2_ListingExcludesDeleted == []C2_Listing /\ [][C2_NoUndelete]_vars

C2_Witness ==
    /\ resp.op = "get_review_schedules"
    /\ resp.body # {}
    /\ \E s \in Rows(resp.arg) : schedules[s].is_deleted
    /\ \E s \in Rows(resp.arg) : schedules[s].completed # None

(* C3: auxiliary definitions *)
C3_NoOrphan ==
    /\ \A s \in DOMAIN schedules : schedules[s].learning_item_id \in DOMAIN items
    /\ (resp.op = "delete_learning_item" /\ resp.status = 200 =>
          resp.arg \notin DOMAIN items /\ Rows(resp.arg) = {})
    /\ (resp.op \in {"complete_review", "delete_review"} =>
          (resp.status = 404 <=> resp.arg \notin DOMAIN schedules))

C3_CascadeStep ==
    Succeeded("delete_learning_item") =>
        /\ resp'.arg \in DOMAIN items
        /\ DOMAIN items' = DOMAIN items \ {resp'.arg}
        /\ DOMAIN schedules' = DOMAIN schedules \ Rows(resp'.arg)
        /\ \A s \in DOMAIN schedules' : schedules'[s] = schedules[s]

(* C3: every stored schedule references a stored learning item; a successful
   delete_learning_item(i) leaves neither item i nor any schedule whose parent
   is i, whatever the state of those schedules; and complete_review and
   delete_review answer 404 exactly for the ids that are not stored. *)
C3_CascadeDelete == []C3_NoOrphan /\ [][C3_CascadeStep]_vars

C3_Witness ==
    /\ resp.op = "delete_learning_item"
    /\ resp.status = 200
    /\ DOMAIN items # {}
    /\ \E s \in DOMAIN schedules : schedules[s].is_deleted

(* C4: auxiliary definitions *)
C4_Increasing ==
    \A s, t \in DOMAIN schedules :
        (/\ schedules[s].learning_item_id = schedules[t].learning_item_id
         /\ schedules[s].review_number < schedules[t].review_number)
            => before(schedules[s].review_date, schedules[t].review_date)

(* C4: every stored schedule's review_date is strictly later than the
   learning_date of its item, and the review_dates of one item are strictly
   increasing in review_number order. *)
C4_FutureReminders ==
    /\ \A s \in DOMAIN schedules :
          schedules[s].learning_item_id \in DOMAIN items =>
             before(items[schedules[s].learning_item_id].learning_date,
                    schedules[s].review_date)
    /\ C4_Increasing

(* C5: auxiliary definitions *)
C5_NonDeleted(u) ==
    { s \in DOMAIN schedules :
        /\ ~schedules[s].is_deleted
        /\ \E i \in DOMAIN items :
              i = schedules[s].learning_item_id /\ items[i].user_id = u }

C5_Done(u) == { s \in C5_NonDeleted(u) : schedules[s].completed # None }

C5_RateOf(u, r) ==
    LET a == Cardinality(C5_NonDeleted(u))
        c == Cardinality(C5_Done(u))
    IN  /\ r \in 0..1000
        /\ a = 0 => r = 0
        /\ a > 0 => /\ 2 * (r * a - 1000 * c) <= a
                    /\ 2 * (1000 * c - r * a) <= a

(* C5: for every user the analyzer's completion_rate is the share of that
   user's non-deleted schedules that have a completion timestamp, times 100 and
   rounded to one decimal: it lies in 0..100, is 0 when the user has no
   non-deleted schedule, and is within half a tenth of the exact quotient;
   deleted rows and other users' rows are not counted; 7 of 10 gives 70.0; and
   get_analytics answers with that value. *)
C5_CompletionRate ==
    /\ \A u \in UserIds : C5_RateOf(u, analyze_learning_pattern(u).completion_rate)
    /\ PyRound(7, 10) = 700
    /\ (resp.op = "get_analytics" =>
          /\ C5_RateOf(resp.arg, resp.body.completion_rate)
          /\ resp.body.total_items =
                Cardinality({ i \in DOMAIN items : items[i].user_id = resp.arg }))

C5_Witness ==
    /\ resp.op = "get_analytics"
    /\ resp.body.completion_rate \notin {0, 1000}
    /\ \E s \in DOMAIN schedules :
          schedules[s].is_deleted /\ items[schedules[s].learning_item_id].user_id = resp.arg
    /\ \E s \in DOMAIN schedules :
          items[schedules[s].learning_item_id].user_id # resp.arg

(* C6: auxiliary definitions *)
C6_Scaled(base, f, out) ==
    /\ Len(out) = Len(base)
    /\ \A k \in 1..Len(base) : 10 * out[k] <= f * base[k] /\ f * base[k] < 10 * (out[k] + 1)

(* C6: optimize_review_intervals(rate, base) has the length of base and every
   entry is the base entry times one factor, truncated: 0.8 below 50, 1.2 above
   80, 1.0 otherwise (50 and 80 included); (40,[10,20]) = [8,16],
   (90,[10,20]) = [12,24], (65,[10,20]) = [10,20]. *)
C6_Optimizer ==
    nreq = 1 =>
        /\ optIn.rate < 500 => C6_Scaled(optIn.base, 8, optOut)
        /\ optIn.rate > 800 => C6_Scaled(optIn.base, 12, optOut)
        /\ optIn.rate \in 500..800 => optOut = optIn.base
        /\ (optIn = [rate |-> 400, base |-> <<10, 20>>] => optOut = <<8, 16>>)
        /\ (optIn = [rate |-> 900, base |-> <<10, 20>>] => optOut = <<12, 24>>)
        /\ (optIn = [rate |-> 650, base |-> <<10, 20>>] => optOut = <<10, 20>>)

C6_Witness ==
    /\ nreq = 1
    /\ optIn = [rate |-> 800, base |-> <<10, 24>>]
    /\ optOut = <<10, 24>>

(* C7: auxiliary definitions *)
C7_Delta(k, n) ==
    LET m == BASE_INTERVALS[k] * (10 + n) * 6
    IN  [days |-> m \div 1440, minutes |-> m % 1440]

C7_Preview ==
    (resp.op = "calculate_reviews" /\ resp.status = 200) =>
        LET T == fromisoformat(resp.arg[1])
            n == resp.arg[2]
            b == resp.body
        IN  /\ DOMAIN b = 1..6
            /\ \A k \in 1..6 :
                  /\ b[k].review_number = k
                  /\ b[k].interval_hours.tenths = BASE_INTERVALS[k] * (10 + n)
                  /\ b[k].interval_hours.ulps \in -1..1
                  /\ fromisoformat(b[k].review_date) = plus(T, C7_Delta(k, n))
                  /\ b[k].completed = FALSE
                  /\ b[k].is_deleted = FALSE
            /\ \A k \in 1..5 :
                  before(fromisoformat(b[k].review_date), fromisoformat(b[k + 1].review_date))
            /\ n = 0 =>
                  \A k \in 1..6 :
                     fromisoformat(b[k].review_date) =
                        plus(T, [days |-> <<0, 1, 3, 7, 14, 30>>[k],
                                 minutes |-> <<60, 0, 0, 0, 0, 0>>[k]])

C7_PersistsNothing ==
    (IsRequest /\ resp'.op = "calculate_reviews") => store' = store

C7_NoTableChanged == [][C7_PersistsNothing]_vars

(* C7: calculate_reviews(T, n) with a parsable anchor T and n >= 0 answers
   N = 6 records numbered 1..6 in order, the k-th with interval_hours =
   base[k] * (1 + 0.1 n) and review_date = T + interval_hours, completed and
   is_deleted false; the review dates are strictly increasing; and for n = 0
   they are T + 1, 24, 72, 168, 336, 720 hours. *)
C7_CalculateReviews ==
    (/\ resp.op = "calculate_reviews"
     /\ fromisoformat(resp.arg[1]) # ValueError
     /\ resp.arg[2] >= 0) =>
        resp.status = 200 /\ C7_Preview

(* C8: every stored learning item has exactly N = 6 schedule rows, deleted rows
   included, numbered 1..6 without repetition in the order of their ids, and
   no schedule row is without its item. *)
C8_AllOrNothing ==
    /\ \A i \in DOMAIN items :
          /\ Cardinality(Rows(i)) = 6
          /\ Cardinality(Rows(i)) = N
          /\ { schedules[s].review_number : s \in Rows(i) } = 1..6
          /\ \A s, t \in Rows(i) :
                s < t <=> schedules[s].review_number < schedules[t].review_number
    /\ \A s \in DOMAIN schedules : schedules[s].learning_item_id \in DOMAIN items

C8_Witness ==
    /\ Cardinality(DOMAIN items) = 2
    /\ \E s \in DOMAIN schedules : schedules[s].is_deleted
    /\ resp.op = "create_learning_item"
    /\ resp.status = 200

(* C9: auxiliary definitions *)
C9_ErrorStep ==
    IsRequest =>
        /\ resp'.status # 200 => store' = store
        /\ (resp'.op \in {"complete_review", "delete_review"}
              /\ resp'.arg \notin DOMAIN schedules) =>
                 resp'.status = 404 /\ store' = store
        /\ (resp'.op = "delete_learning_item" /\ resp'.arg \notin DOMAIN items) =>
                 resp'.status = 404 /\ store' = store
        /\ (resp'.op = "create_learning_item"
              /\ fromisoformat(resp'.arg[1]) = ValueError) =>
                 resp'.status = 400 /\ store' = store

(* C9: a request answered with an error (400, 404 or 500) changes no table:
   complete_review and delete_review on an unknown schedule_id and
   delete_learning_item on an unknown item_id answer 404, create_learning_item
   with an unparsable learning_date answers 400, and users, items and
   schedules stay as they were. *)
C9_ErrorsChangeNothing == [][C9_ErrorStep]_vars

C9_Witness ==
    /\ resp.op = "create_learning_item"
    /\ resp.status = 400
    /\ DOMAIN items # {}
    /\ \E s \in DOMAIN schedules : schedules[s].completed # None

(* C10: auxiliary definitions *)
C10_FrameStep ==
    /\ Succeeded("complete_review") =>
          /\ resp'.arg \in DOMAIN schedules
          /\ DOMAIN schedules' = DOMAIN schedules
          /\ \A s \in DOMAIN schedules :
                IF s = resp'.arg
                THEN schedules'[s] = [schedules[s] EXCEPT !.completed = schedules'[s].completed]
                ELSE schedules'[s] = schedules[s]
          /\ items' = items /\ users' = users
    /\ Succeeded("delete_review") =>
          /\ resp'.arg \in DOMAIN schedules
          /\ DOMAIN schedules' = DOMAIN schedules
          /\ \A s \in DOMAIN schedules :
                IF s = resp'.arg
                THEN schedules'[s] = [schedules[s] EXCEPT !.is_deleted = TRUE]
                ELSE schedules'[s] = schedules[s]
          /\ items' = items /\ users' = users
    /\ \A s \in Kept : schedules'[s].review_date = schedules[s].review_date

(* C10: a successful complete_review(s) changes only the completed field of
   row s and a successful delete_review(s) only its is_deleted field; every
   other schedule row, all items and all users are unchanged; and no step
   changes the review_date of a row that stays stored. *)
C10_SingleRecordUpdates == [][C10_FrameStep]_vars

C10_Witness ==
    /\ resp.op = "complete_review"
    /\ resp.status = 200
    /\ \E s \in DOMAIN schedules :
          /\ s # resp.arg
          /\ schedules[s].learning_item_id = schedules[resp.arg].learning_item_id
          /\ schedules[s].is_deleted
    /\ \E s \in DOMAIN schedules :
          /\ schedules[s].learning_item_id # schedules[resp.arg].learning_item_id
          /\ schedules[s].completed = None

====
